---- MODULE Spec2Model ----
(***************************************************************************)
(* A model of the two sample Databricks Apps.                              *)
(*                                                                         *)
(*   sample-get-uc-service-creds/app.py  the credential app: one run of    *)
(*       main() asks the credential broker for temporary AWS credentials   *)
(*       and lists EC2 instances with them.                                *)
(*   sample-large-file/startup.py        the startup script: downloads     *)
(*       big.json from a Volume, then spawns and waits for streamlit.      *)
(*   sample-large-file/app.py            the preview app the child runs.   *)
(*                                                                         *)
(* Python values are tagged records, so that None, a str, a bytes object   *)
(* and an object with attributes are all distinct values.  A function of   *)
(* the program is an operator from the outcomes of the external calls it   *)
(* makes to what it returns or raises; an except clause is an operator on   *)
(* the outcome of its try block.                                           *)
(***************************************************************************)
EXTENDS Integers, Sequences, FiniteSets, TLC

VARIABLES
    \* ---- credential app (sample-get-uc-service-creds/app.py) ----
    mpc,                      \* position of main(): off, init, get_creds, get_ec2, done, raised
    service_credential_name,  \* the sidebar text input
    fetch_instances,          \* the fetch button
    temp_credentials,         \* outcome of the broker call of this run
    cred_result,              \* what get_aws_credentials returned
    describe_outcome,         \* outcome of the boto3 calls of this run
    ec2_result,               \* what get_ec2_instances returned
    brokerCalls,              \* broker calls made in this run
    ec2Calls,                 \* describe-instances attempts made in this run
    ui,                       \* what the run has shown
    \* ---- startup script (sample-large-file/startup.py) ----
    pc,                       \* position of main(): off, start, downloading, download_ret,
                              \*   spawn, wait, interrupted, wait2, done, raised
    localFile,                \* the file at LOCAL_FILE_PATH
    fileBefore,               \* the file as it was when download_file_from_volume was called
    frame,                    \* download_file_from_volume at its return: outcomes, locals, result
    download_success,         \* main's local
    child,                    \* the streamlit child process: none, running, exited
    spawned,                  \* Popen calls that started a child
    terminates,               \* process.terminate() calls
    interrupted,              \* a KeyboardInterrupt arrived in the first wait
    \* ---- preview app (sample-large-file/app.py), run by the child ----
    apc,                      \* position of a script run: idle, check, read, status
    exists1,                  \* result of the first os.path.exists of this run
    opened,                   \* open(local_json_file) was called in this run
    shown                     \* the messages this run has shown

credVars == <<mpc, service_credential_name, fetch_instances, temp_credentials,
              cred_result, describe_outcome, ec2_result, brokerCalls, ec2Calls, ui>>
startupVars == <<pc, localFile, fileBefore, frame, download_success, child,
                 spawned, terminates, interrupted>>
appVars == <<apc, exists1, opened, shown>>
vars == <<credVars, startupVars, appVars>>

----------------------------------------------------------------------------
(* Python values *)

None == [t |-> "None"]
Str(s) == [t |-> "str", v |-> s]
Bytes(b) == [t |-> "bytes", v |-> b]
Obj(attrs) == [t |-> "obj", attrs |-> attrs]
Dict(items) == [t |-> "dict", items |-> items]
List(items) == [t |-> "list", items |-> items]
Bool(b) == [t |-> "bool", v |-> b]
Unset == [t |-> "unset"]

\* hasattr(o, a)
HasAttr(o, a) == o.t = "obj" /\ a \in DOMAIN o.attrs

\* bool(x), as `if x:` and `if not x:` evaluate it
Truthy(x) ==
    CASE x.t = "None" -> FALSE
      [] x.t = "str" -> x.v # ""
      [] x.t = "bytes" -> Len(x.v) > 0
      [] x.t = "dict" -> DOMAIN x.items # {}
      [] x.t = "list" -> Len(x.items) > 0
      [] x.t = "bool" -> x.v
      [] OTHER -> TRUE

\* The outcome of running a block: it returns a value or raises an exception.
Ret(v) == [kind |-> "ret", val |-> v]
Exc(type, msg) == [kind |-> "exc", type |-> type, msg |-> msg]

\* The classes `except Exception` catches: every exception the model raises.
\* (KeyboardInterrupt is a BaseException and is modelled in start_streamlit.)
ExceptionTypes == {"Exception", "ImportError", "AttributeError", "TypeError",
                   "KeyError", "NameError", "OSError"}

\* str(e) of the exceptions external calls raise
ExcMsgs == {"", "denied"}

----------------------------------------------------------------------------
(* sample-get-uc-service-creds/app.py *)

CredFields == {"access_key_id", "secret_access_key", "session_token"}

\* The objects the broker response may hold in aws_temp_credentials: None (the
\* credential is not an AWS one), or an object with some of the three fields,
\* each set or None.
AwsCredObjects ==
    {None} \cup
    { Obj(f) : f \in UNION { [D -> {x}] : D \in SUBSET CredFields, x \in {None, Str("v")} } }

\* Outcomes of wc.credentials.generate_temporary_service_credential(...).
BrokerOutcomes ==
    { Exc("Exception", m) : m \in ExcMsgs }
    \cup { Ret(Obj(<<>>)) }
    \cup { Ret(Obj([aws_temp_credentials |-> a])) : a \in AwsCredObjects }

\* o.a, as the outcome of the attribute read
GetAttr(o, a) ==
    IF HasAttr(o, a) THEN Ret(o.attrs[a])
    ELSE Exc("AttributeError", "object has no attribute " \o a)

\* lines 41-64: the body of the try block
get_aws_credentials_try(out) ==
    IF out.kind = "exc" THEN out
    ELSE LET tc == out.val IN
      IF HasAttr(tc, "aws_temp_credentials") THEN
        LET aws_creds == tc.attrs["aws_temp_credentials"]
            k == GetAttr(aws_creds, "access_key_id")
            s == GetAttr(aws_creds, "secret_access_key")
            t == GetAttr(aws_creds, "session_token")
        IN  IF k.kind = "exc" THEN k
            ELSE IF s.kind = "exc" THEN s
            ELSE IF t.kind = "exc" THEN t
            ELSE Ret(<<Dict([access_key_id |-> k.val,
                             secret_access_key |-> s.val,
                             session_token |-> t.val]), None>>)
      ELSE Ret(<<None, Str("No AWS credentials found in response")>>)

\* The handler with str(e) alone as the error message.
get_aws_credentials_except_bare_message(r) ==
    IF r.kind = "exc" /\ r.type \in ExceptionTypes
    THEN Ret(<<None, Str(r.msg)>>)
    ELSE r

\* lines 66-70: except Exception as e
get_aws_credentials_except(r) ==
    IF r.kind = "exc" /\ r.type \in ExceptionTypes
    THEN Ret(<<None, Str("Error getting AWS credentials: " \o r.msg)>>)
    ELSE r

get_aws_credentials(out) == get_aws_credentials_except(get_aws_credentials_try(out))

\* ---- get_ec2_instances ----

MaxReservations == 2
MaxInstances == 2

SeqUpTo(S, n) == UNION { [1..k -> S] : k \in 0..n }

\* Instances as describe_instances reports them: "Tags" is absent when the
\* instance has no tags; an instance may carry several tags, "Name" among them.
SampleInstances ==
    { [InstanceId |-> "i-1"],
      [InstanceId |-> "i-2", Tags |-> <<[Key |-> "env", Value |-> "prod"]>>],
      [InstanceId |-> "i-3", Tags |-> <<[Key |-> "env", Value |-> "prod"],
                                        [Key |-> "Name", Value |-> "web"],
                                        [Key |-> "Name", Value |-> "db"]>>] }

DescribeResponses ==
    { [Reservations |-> rs] :
        rs \in SeqUpTo({ [Instances |-> is] : is \in SeqUpTo(SampleInstances, MaxInstances) },
                       MaxReservations) }

\* Outcomes of boto3.Session(...), session.client(...), describe_instances():
\* the first call that fails raises, or all three succeed with a response.
Ec2Outcomes ==
    { [stage |-> st, out |-> Exc("Exception", m)] :
        st \in {"session", "client", "describe"}, m \in ExcMsgs }
    \cup { [stage |-> "describe", out |-> Ret(r)] : r \in DescribeResponses }

\* The scan without its break: the last "Name" tag wins.
instance_name_no_break(tags, i) ==
    LET matches == { j \in i..Len(tags) : tags[j].Key = "Name" }
    IN  IF matches = {} THEN "N/A"
        ELSE tags[CHOOSE j \in matches : \A k \in matches : k <= j].Value

\* lines 90-95: the Name tag of an instance, scanning its tags from index i
RECURSIVE instance_name(_, _)
instance_name(tags, i) ==
    IF i > Len(tags) THEN "N/A"
    ELSE IF tags[i].Key = "Name" THEN tags[i].Value
    ELSE instance_name(tags, i + 1)

\* instance.get("Tags", [])
instance_tags(instance) ==
    IF "Tags" \in DOMAIN instance THEN instance.Tags ELSE <<>>

\* lines 97-100
instance_info(instance) ==
    [Name |-> instance_name(instance_tags(instance), 1),
     InstanceID |-> instance.InstanceId]

\* lines 89-101: the inner loop, appending to instances
RECURSIVE instances_loop(_, _, _)
instances_loop(insts, i, instances) ==
    IF i > Len(insts) THEN instances
    ELSE instances_loop(insts, i + 1, Append(instances, instance_info(insts[i])))

\* lines 88-101: the outer loop
RECURSIVE reservations_loop(_, _, _)
reservations_loop(reservations, r, instances) ==
    IF r > Len(reservations) THEN instances
    ELSE reservations_loop(reservations, r + 1,
                           instances_loop(reservations[r].Instances, 1, instances))

\* lines 76-104: the body of the try block
get_ec2_instances_try(aws_credentials, e) ==
    IF aws_credentials.t # "dict" THEN
        Exc("TypeError", "object is not subscriptable")
    ELSE IF ~ (CredFields \subseteq DOMAIN aws_credentials.items) THEN
        Exc("KeyError", "access_key_id")
    ELSE IF e.out.kind = "exc" THEN e.out
    ELSE Ret(<<List(reservations_loop(e.out.val.Reservations, 1, <<>>)), None>>)

\* The handler catching KeyError only.
get_ec2_instances_except_narrow(r) ==
    IF r.kind = "exc" /\ r.type = "KeyError"
    THEN Ret(<<List(<<>>), Str("Error getting EC2 instances: " \o r.msg)>>)
    ELSE r

\* lines 106-109: except Exception as e
get_ec2_instances_except(r) ==
    IF r.kind = "exc" /\ r.type \in ExceptionTypes
    THEN Ret(<<List(<<>>), Str("Error getting EC2 instances: " \o r.msg)>>)
    ELSE r

get_ec2_instances(aws_credentials, e) ==
    get_ec2_instances_except(get_ec2_instances_try(aws_credentials, e))

\* ---- main ----

CredentialNames == {"", "my-credential"}

Show(kind, text) == [kind |-> kind, text |-> text]
NothingShown == Show("none", "")

\* The locals of a run of main() before it has made any call.
CredRunReset ==
    /\ temp_credentials' = Unset
    /\ cred_result' = Unset
    /\ describe_outcome' = Unset
    /\ ec2_result' = Unset
    /\ brokerCalls' = 0
    /\ ec2Calls' = 0

\* lines 113-151: the page is drawn, the widgets are read; main returns at the
\* empty-name check, or when the button was not pressed.
MainStart ==
    /\ mpc = "init"
    /\ \E name \in CredentialNames, button \in BOOLEAN, wc \in {Ret(Obj(<<>>)), Exc("Exception", "denied")} :
        /\ service_credential_name' = name
        /\ fetch_instances' = button
        /\ IF wc.kind = "exc" THEN
              /\ mpc' = "raised"
              /\ ui' = Show("traceback", wc.msg)
           ELSE IF name = "" THEN
              /\ mpc' = "done"
              /\ ui' = Show("warning", "Please enter a Databricks Service Credential Name")
           ELSE IF button THEN
              /\ mpc' = "get_creds"
              /\ ui' = NothingShown
           ELSE
              /\ mpc' = "done"
              /\ ui' = NothingShown
    /\ UNCHANGED <<temp_credentials, cred_result, describe_outcome, ec2_result,
                   brokerCalls, ec2Calls>>
    /\ UNCHANGED <<startupVars, appVars>>

\* The checks without the return after a credential error.
AfterCredentialsNoReturn(r) ==
    IF r.kind = "exc" THEN
        /\ mpc' = "raised"
        /\ ui' = Show("traceback", r.msg)
    ELSE IF Truthy(r.val[2]) THEN
        /\ mpc' = "get_ec2"
        /\ ui' = Show("error", "Failed to get AWS credentials: " \o r.val[2].v)
    ELSE
        /\ mpc' = "get_ec2"
        /\ ui' = NothingShown

\* lines 152-162: the broker call and the two checks on what it returned
AfterCredentials(r) ==
    IF r.kind = "exc" THEN
        /\ mpc' = "raised"
        /\ ui' = Show("traceback", r.msg)
    ELSE IF Truthy(r.val[2]) THEN
        /\ mpc' = "done"
        /\ ui' = Show("error", "Failed to get AWS credentials: " \o r.val[2].v)
    ELSE IF ~ Truthy(r.val[1]) THEN
        /\ mpc' = "done"
        /\ ui' = Show("error", "No AWS credentials received from Databricks UC")
    ELSE
        /\ mpc' = "get_ec2"
        /\ ui' = NothingShown

MainGetCredentials ==
    /\ mpc = "get_creds"
    /\ \E out \in BrokerOutcomes :
        /\ temp_credentials' = out
        /\ brokerCalls' = brokerCalls + 1
        /\ cred_result' = get_aws_credentials(out)
        /\ AfterCredentials(get_aws_credentials(out))
    /\ UNCHANGED <<service_credential_name, fetch_instances, describe_outcome,
                   ec2_result, ec2Calls>>
    /\ UNCHANGED <<startupVars, appVars>>

\* lines 165-180: the listing call and the display of its result
AfterInstances(r) ==
    IF r.kind = "exc" THEN
        /\ mpc' = "raised"
        /\ ui' = Show("traceback", r.msg)
    ELSE IF Truthy(r.val[2]) THEN
        /\ mpc' = "done"
        /\ ui' = Show("error", "Failed to get EC2 instances: " \o r.val[2].v)
    ELSE IF ~ Truthy(r.val[1]) THEN
        /\ mpc' = "done"
        /\ ui' = Show("info", "No EC2 instances found")
    ELSE
        /\ mpc' = "done"
        /\ ui' = Show("dataframe", "Found EC2 instance(s)")

MainGetInstances ==
    /\ mpc = "get_ec2"
    /\ \E e \in Ec2Outcomes :
        /\ describe_outcome' = e
        /\ ec2Calls' = ec2Calls + 1
        /\ ec2_result' = get_ec2_instances(cred_result.val[1], e)
        /\ AfterInstances(get_ec2_instances(cred_result.val[1], e))
    /\ UNCHANGED <<service_credential_name, fetch_instances, temp_credentials,
                   cred_result, brokerCalls>>
    /\ UNCHANGED <<startupVars, appVars>>

\* The UI toolkit runs the whole script again on the next interaction.
MainRerun ==
    /\ mpc \in {"done", "raised"}
    /\ mpc' = "init"
    /\ ui' = NothingShown
    /\ CredRunReset
    /\ UNCHANGED <<service_credential_name, fetch_instances>>
    /\ UNCHANGED <<startupVars, appVars>>


----------------------------------------------------------------------------
(* sample-large-file/startup.py *)

\* File contents: "[]" (a JSON document), nothing, and a byte that is not UTF-8.
ByteStrings == { <<>>, <<91, 93>>, <<255>> }

\* What an attribute of the download response, or a read() call, may yield.
PyValues == {None, Str("[]")} \cup { Bytes(b) : b \in ByteStrings }

CallOutcomes == { Ret(v) : v \in PyValues } \cup { Exc("Exception", "denied") }

\* Objects with some of the attributes in DOMAIN values, each attribute a drawn
\* from values[a].
Objects(values) ==
    { Obj(f) : f \in UNION { { g \in [E -> UNION { values[a] : a \in E }] :
                                 \A a \in E : g[a] \in values[a] } :
                             E \in SUBSET DOMAIN values } }

\* download_response.contents: None, or a stream object with or without read().
\* A method is modelled by the outcome of calling it.
ContentsValues == {None} \cup Objects([a \in {"read"} |-> CallOutcomes])

ResponseAttributes == {"contents", "content", "body", "read", "__bytes__"}

ResponseValues ==
    [a \in ResponseAttributes |->
        CASE a = "contents" -> ContentsValues
          [] a = "content" -> PyValues
          [] a = "body" -> PyValues
          [] a = "read" -> CallOutcomes
          [] a = "__bytes__" -> { Ret(Bytes(<<91>>)) }]

\* The shapes of what w.files.download(...) returns.
DownloadResponses == Objects(ResponseValues)

\* The local file
FileAbsent == [exists |-> FALSE, data |-> <<>>]
File(d) == [exists |-> TRUE, data |-> d]

\* Outcomes of open(LOCAL_FILE_PATH, 'wb') and f.write(content) on the file
\* system: both succeed, open fails, or the write fails after k bytes.
FsOutcomes ==
    { [kind |-> "ok", k |-> 0], [kind |-> "open_fails", k |-> 0] }
    \cup { [kind |-> "write_fails", k |-> k] : k \in {0, 1} }

\* Outcomes of the external calls of download_file_from_volume: the first of
\* the import, WorkspaceClient() and w.files.download() that fails raises, or
\* the download returns a response and the file system acts as fs says.
DownloadEnvs ==
    { [stage |-> "import", out |-> Exc("ImportError", "No module named databricks"),
       fs |-> [kind |-> "ok", k |-> 0]] }
    \cup { [stage |-> st, out |-> Exc("Exception", m), fs |-> [kind |-> "ok", k |-> 0]] :
             st \in {"client", "download"}, m \in ExcMsgs }
    \cup { [stage |-> "download", out |-> Ret(r), fs |-> fs] :
             r \in DownloadResponses, fs \in FsOutcomes }

\* A block of the function ends by falling through with a value (Ret), by
\* raising (Exc) or by a return statement.
Return(v) == [kind |-> "return", val |-> v]

\* len(x): None has no len()
HasLen(x) == x.t \in {"str", "bytes", "list", "dict"}

\* The chain with body tried before content.
extract_content_body_first(download_response) ==
    IF HasAttr(download_response, "contents")
         /\ download_response.attrs["contents"] # None THEN
        LET binary_content == download_response.attrs["contents"] IN
          IF HasAttr(binary_content, "read") THEN
            LET content == binary_content.attrs["read"] IN
              IF content.kind = "exc" THEN content
              ELSE IF ~ HasLen(content.val) THEN
                  Exc("TypeError", "object of type 'NoneType' has no len()")
              ELSE content
          ELSE Return(Bool(FALSE))
    ELSE IF HasAttr(download_response, "body") THEN
        Ret(download_response.attrs["body"])
    ELSE IF HasAttr(download_response, "content") THEN
        Ret(download_response.attrs["content"])
    ELSE IF HasAttr(download_response, "read") THEN
        download_response.attrs["read"]
    ELSE IF HasAttr(download_response, "__bytes__") THEN
        download_response.attrs["__bytes__"]
    ELSE Return(Bool(FALSE))

\* lines 52-79: the fallback chain that finds the content
extract_content(download_response) ==
    IF HasAttr(download_response, "contents")
         /\ download_response.attrs["contents"] # None THEN
        LET binary_content == download_response.attrs["contents"] IN
          IF HasAttr(binary_content, "read") THEN
            LET content == binary_content.attrs["read"] IN
              IF content.kind = "exc" THEN content
              ELSE IF ~ HasLen(content.val) THEN
                  Exc("TypeError", "object of type 'NoneType' has no len()")
              ELSE content
          ELSE Return(Bool(FALSE))
    ELSE IF HasAttr(download_response, "content") THEN
        Ret(download_response.attrs["content"])
    ELSE IF HasAttr(download_response, "body") THEN
        Ret(download_response.attrs["body"])
    ELSE IF HasAttr(download_response, "read") THEN
        download_response.attrs["read"]
    ELSE IF HasAttr(download_response, "__bytes__") THEN
        download_response.attrs["__bytes__"]
    ELSE Return(Bool(FALSE))

Min(a, b) == IF a < b THEN a ELSE b

\* lines 84-85: with open(LOCAL_FILE_PATH, 'wb') as f: f.write(content).
\* Opening for 'wb' creates the file or truncates it, before anything is written.
write_file(content, fs, file) ==
    IF fs.kind = "open_fails" THEN
        [out |-> Exc("OSError", "Permission denied"), file |-> file]
    ELSE IF content.t # "bytes" THEN
        [out |-> Exc("TypeError", "a bytes-like object is required"), file |-> File(<<>>)]
    ELSE IF fs.kind = "write_fails" THEN
        [out |-> Exc("OSError", "No space left on device"),
         file |-> File(SubSeq(content.v, 1, Min(fs.k, Len(content.v))))]
    ELSE [out |-> Ret(None), file |-> File(content.v)]

\* lines 36-90: the body of the try block
download_try(env, file) ==
    IF env.out.kind = "exc" THEN [out |-> env.out, file |-> file]
    ELSE LET c == extract_content(env.out.val) IN
      IF c.kind # "ret" THEN [out |-> c, file |-> file]
      ELSE LET w == write_file(c.val, env.fs, file) IN
        IF w.out.kind = "exc" THEN w
        ELSE [out |-> Return(Bool(TRUE)), file |-> w.file]

\* line 97: dbutils.fs.cp(...). The module binds no name dbutils (its imports
\* are os, sys, subprocess and Path), so evaluating it raises NameError.
dbutils_fs_cp == Exc("NameError", "name 'dbutils' is not defined")

\* lines 92-102: except ImportError, with its own try/except Exception
download_except_import(r) ==
    IF r.out.kind = "exc" /\ r.out.type = "ImportError" THEN
        IF dbutils_fs_cp.kind = "exc" /\ dbutils_fs_cp.type \in ExceptionTypes
        THEN [out |-> Return(Bool(FALSE)), file |-> r.file]
        ELSE IF dbutils_fs_cp.kind = "exc"
        THEN [out |-> dbutils_fs_cp, file |-> r.file]
        ELSE [out |-> Return(Bool(TRUE)), file |-> r.file]
    ELSE r

\* lines 103-107: except Exception
download_except(r) ==
    IF r.out.kind = "exc" /\ r.out.type \in ExceptionTypes \ {"ImportError"}
    THEN [out |-> Return(Bool(FALSE)), file |-> r.file]
    ELSE r

\* lines 33-107: what the call returns or raises, and the file it leaves
download_file_from_volume(env, file) ==
    LET t == download_try(env, file)
    IN  IF t.out.kind = "exc" /\ t.out.type = "ImportError"
        THEN download_except_import(t)
        ELSE download_except(t)


\* ---- main and start_streamlit ----

\* lines 131-142: main prints the configuration and calls download_file_from_volume
MainCallDownload ==
    /\ pc = "start"
    /\ pc' = "downloading"
    /\ fileBefore' = localFile
    /\ UNCHANGED <<localFile, frame, download_success, child, spawned, terminates,
                   interrupted>>
    /\ UNCHANGED <<credVars, appVars>>

\* lines 33-107: download_file_from_volume runs to its return (or raises)
DownloadFile ==
    /\ pc = "downloading"
    /\ \E env \in DownloadEnvs :
        LET r == download_file_from_volume(env, localFile) IN
          /\ frame' = [env |-> env, out |-> r.out]
          /\ localFile' = r.file
          /\ pc' = IF r.out.kind = "return" THEN "download_ret" ELSE "raised"
    /\ UNCHANGED <<fileBefore, download_success, child, spawned, terminates, interrupted>>
    /\ UNCHANGED <<credVars, appVars>>

\* main giving up when the download failed.
main_after_download_stop(success) == IF success.v THEN "spawn" ELSE "done"

\* lines 142-149: main keeps the flag and goes on whatever it is
main_after_download(success) == "spawn"

MainAfterDownload ==
    /\ pc = "download_ret"
    /\ download_success' = frame.out.val
    /\ pc' = main_after_download(frame.out.val)
    /\ frame' = Unset
    /\ fileBefore' = Unset
    /\ UNCHANGED <<localFile, child, spawned, terminates, interrupted>>
    /\ UNCHANGED <<credVars, appVars>>

\* lines 109-122: start_streamlit starts the child
StartStreamlit ==
    /\ pc = "spawn"
    /\ child' = "running"
    /\ spawned' = spawned + 1
    /\ pc' = "wait"
    /\ UNCHANGED <<localFile, fileBefore, frame, download_success, terminates, interrupted>>
    /\ UNCHANGED <<credVars, appVars>>

\* The child exits, of itself or on a signal.
ChildExits ==
    /\ child = "running"
    /\ child' = "exited"
    /\ UNCHANGED <<pc, localFile, fileBefore, frame, download_success, spawned,
                   terminates, interrupted>>
    /\ UNCHANGED <<credVars, appVars>>

\* A wait that does not block.
wait_returns_at_once(c) == TRUE

\* process.wait() returns when the child has exited
wait_returns(c) == c = "exited"

\* line 125: the first wait returns and start_streamlit, then main, return
WaitReturns ==
    /\ pc = "wait"
    /\ wait_returns(child)
    /\ pc' = "done"
    /\ UNCHANGED <<localFile, fileBefore, frame, download_success, child, spawned,
                   terminates, interrupted>>
    /\ UNCHANGED <<credVars, appVars>>

\* lines 125-127: a KeyboardInterrupt arrives during the first wait
KeyboardInterrupt ==
    /\ pc = "wait"
    /\ pc' = "interrupted"
    /\ interrupted' = TRUE
    /\ UNCHANGED <<localFile, fileBefore, frame, download_success, child, spawned,
                   terminates>>
    /\ UNCHANGED <<credVars, appVars>>

\* line 128: process.terminate()
Terminate ==
    /\ pc = "interrupted"
    /\ terminates' = terminates + 1
    /\ pc' = "wait2"
    /\ UNCHANGED <<localFile, fileBefore, frame, download_success, child, spawned,
                   interrupted>>
    /\ UNCHANGED <<credVars, appVars>>

\* line 129: the second wait returns and start_streamlit, then main, return
WaitAgainReturns ==
    /\ pc = "wait2"
    /\ wait_returns(child)
    /\ pc' = "done"
    /\ UNCHANGED <<localFile, fileBefore, frame, download_success, child, spawned,
                   terminates, interrupted>>
    /\ UNCHANGED <<credVars, appVars>>

\* lines 126-129: a second KeyboardInterrupt, in the handler, is caught by
\* nothing and ends start_streamlit and main with the exception
InterruptInHandler ==
    /\ pc \in {"interrupted", "wait2"}
    /\ pc' = "raised"
    /\ UNCHANGED <<localFile, fileBefore, frame, download_success, child, spawned,
                   terminates, interrupted>>
    /\ UNCHANGED <<credVars, appVars>>

----------------------------------------------------------------------------
(* sample-large-file/app.py: one run of the script per page load or interaction *)

SampleChars == 10240

MsgFound == "Found local file"
MsgNotFound == "Local file not found"
MsgRead == "Successfully read sample content from JSON file"
MsgParsed == "Successfully parsed JSON sample"
MsgRaw == "Could not parse as complete JSON, showing raw content"
MsgReadError == "Error reading file"
MsgDownloaded == "File was successfully downloaded from Volume"
MsgDownloadFailed == "File download failed or file not found"

\* os.path.exists(local_json_file)
path_exists(file) == file.exists

\* decoding as UTF-8: every byte of the model's files is a character or invalid
utf8_ok(data) == \A i \in 1..Len(data) : data[i] < 128

\* f.read(10240)
read_sample(data) == SubSeq(data, 1, Min(SampleChars, Len(data)))

\* json.loads on a text of brackets: nested arrays
RECURSIVE json_ok(_)
json_ok(text) ==
    /\ Len(text) >= 2
    /\ text[1] = 91
    /\ text[Len(text)] = 93
    /\ (Len(text) = 2 \/ json_ok(SubSeq(text, 2, Len(text) - 1)))

\* The run reading the file whatever the check said.
after_check_always_read(exists) == "read"

\* lines 15-16, 60-62: where the run goes after the existence check
after_check(exists) == IF exists THEN "read" ELSE "status"

\* lines 6-16, 60-62: a run starts and checks that the file exists
AppCheckExists ==
    /\ child = "running"
    /\ apc \in {"idle", "ran"}
    /\ exists1' = Bool(path_exists(localFile))
    /\ opened' = FALSE
    /\ shown' = IF path_exists(localFile) THEN {MsgFound} ELSE {MsgNotFound}
    /\ apc' = after_check(path_exists(localFile))
    /\ UNCHANGED <<credVars, startupVars>>

\* lines 19-58: the file is opened, a sample read and parsed
AppReadFile ==
    /\ child = "running"
    /\ apc = "read"
    /\ opened' = TRUE
    /\ shown' = shown \cup
         (IF ~ localFile.exists \/ ~ utf8_ok(read_sample(localFile.data)) THEN {MsgReadError}
          ELSE IF json_ok(read_sample(localFile.data)) THEN {MsgRead, MsgParsed}
          ELSE {MsgRead, MsgRaw})
    /\ apc' = "status"
    /\ UNCHANGED exists1
    /\ UNCHANGED <<credVars, startupVars>>

\* lines 64-71: the download status
AppShowStatus ==
    /\ child = "running"
    /\ apc = "status"
    /\ shown' = shown \cup (IF path_exists(localFile) THEN {MsgDownloaded}
                            ELSE {MsgDownloadFailed})
    /\ apc' = "ran"
    /\ UNCHANGED <<exists1, opened>>
    /\ UNCHANGED <<credVars, startupVars>>

----------------------------------------------------------------------------
(* The specification: a behaviour is a run of the credential app, rerun on *)
(* each interaction, or a launch of the startup script with its child.     *)

InitCred ==
    /\ mpc \in {"init", "off"}
    /\ service_credential_name = ""
    /\ fetch_instances = FALSE
    /\ temp_credentials = Unset
    /\ cred_result = Unset
    /\ describe_outcome = Unset
    /\ ec2_result = Unset
    /\ brokerCalls = 0
    /\ ec2Calls = 0
    /\ ui = NothingShown

\* The local file is absent, or is the one an earlier launch left.
InitStartup ==
    /\ pc = IF mpc = "off" THEN "start" ELSE "off"
    /\ localFile \in IF mpc = "off" THEN {FileAbsent} \cup { File(d) : d \in ByteStrings }
                     ELSE {FileAbsent}
    /\ fileBefore = Unset
    /\ frame = Unset
    /\ download_success = Unset
    /\ child = "none"
    /\ spawned = 0
    /\ terminates = 0
    /\ interrupted = FALSE

InitApp ==
    /\ apc = "idle"
    /\ exists1 = Unset
    /\ opened = FALSE
    /\ shown = {}

Init == InitCred /\ InitStartup /\ InitApp

Next ==
    \/ MainStart
    \/ MainGetCredentials
    \/ MainGetInstances
    \/ MainRerun
    \/ MainCallDownload
    \/ DownloadFile
    \/ MainAfterDownload
    \/ StartStreamlit
    \/ ChildExits
    \/ WaitReturns
    \/ KeyboardInterrupt
    \/ Terminate
    \/ WaitAgainReturns
    \/ InterruptInHandler
    \/ AppCheckExists
    \/ AppReadFile
    \/ AppShowStatus

Spec == Init /\ [][Next]_vars


----------------------------------------------------------------------------
(* Properties *)

NonEmptyError(x) == x.t = "str" /\ x.v # ""

\* ---- C1 ----

\* Instances in the reservations before reservation r
RECURSIVE InstancesBefore(_, _)
InstancesBefore(reservations, r) ==
    IF r <= 1 THEN 0
    ELSE InstancesBefore(reservations, r - 1) + Len(reservations[r - 1].Instances)

\* n is the value of the first tag with key "Name", or "N/A" when the instance
\* has no Tags entry or no such tag
IsNameOf(instance, n) ==
    LET tags == IF "Tags" \in DOMAIN instance THEN instance.Tags ELSE <<>>
        named == { j \in 1..Len(tags) : tags[j].Key = "Name" }
    IN  IF named = {} THEN n = "N/A"
        ELSE \E j \in named : tags[j].Value = n /\ \A k \in named : j <= k

\* records holds one record per instance of the response, in response order
IsListingOf(response, records) ==
    LET rs == response.Reservations IN
    /\ Len(records) = InstancesBefore(rs, Len(rs) + 1)
    /\ \A r \in 1..Len(rs) : \A i \in 1..Len(rs[r].Instances) :
         LET rec == records[InstancesBefore(rs, r) + i]
             instance == rs[r].Instances[i]
         IN  /\ rec.InstanceID = instance.InstanceId
             /\ IsNameOf(instance, rec.Name)

\* C1: for every describe-instances response, get_ec2_instances returns
\* (instances, None) with exactly one record per instance over all
\* reservations, in response order, each with the instance's InstanceId and
\* the value of its first "Name" tag, or "N/A" when it has no Tags entry or
\* no "Name" tag.
C1_ListingIsExact ==
    (ec2_result # Unset /\ describe_outcome.out.kind = "ret") =>
        /\ ec2_result.kind = "ret"
        /\ ec2_result.val[2] = None
        /\ ec2_result.val[1].t = "list"
        /\ IsListingOf(describe_outcome.out.val, ec2_result.val[1].items)

\* A listing over two reservations, with an untagged instance and an instance
\* carrying two "Name" tags after another tag.
C1_Witness ==
    /\ ec2_result # Unset
    /\ describe_outcome.out.kind = "ret"
    /\ Len(describe_outcome.out.val.Reservations) = 2
    /\ Len(ec2_result.val[1].items) = 3
    /\ ec2_result.val[1].items[1] = [Name |-> "N/A", InstanceID |-> "i-1"]
    /\ ec2_result.val[1].items[3] = [Name |-> "web", InstanceID |-> "i-3"]

\* ---- C2 ----

IsTripleOf(creds, aws) ==
    /\ creds.t = "dict"
    /\ DOMAIN creds.items = CredFields
    /\ \A f \in CredFields : creds.items[f] = aws.attrs[f]

HasAwsAttribute(out) == out.kind = "ret" /\ HasAttr(out.val, "aws_temp_credentials")

\* The attribute holds an object with the three fields.
HasAwsFields(out) ==
    /\ HasAwsAttribute(out)
    /\ out.val.attrs["aws_temp_credentials"].t = "obj"
    /\ CredFields \subseteq DOMAIN out.val.attrs["aws_temp_credentials"].attrs

\* C2 as stated: get_aws_credentials returns a triple with a None error
\* whenever the broker response has the aws_temp_credentials attribute, and
\* (None, non-empty error) in every other case.
C2_AsStated ==
    cred_result # Unset =>
        /\ cred_result.kind = "ret"
        /\ IF HasAwsAttribute(temp_credentials)
           THEN /\ cred_result.val[1].t = "dict"
                /\ DOMAIN cred_result.val[1].items = CredFields
                /\ cred_result.val[2] = None
           ELSE /\ cred_result.val[1] = None
                /\ NonEmptyError(cred_result.val[2])

\* C2, amended: get_aws_credentials returns the triple of the three fields
\* with a None error whenever the broker response has the
\* aws_temp_credentials attribute and its value is an object with the three
\* fields, and (None, non-empty error) in every other case, an attribute that
\* is None or lacks a field included; never both a triple and an error, nor
\* neither.
C2_TripleOrError ==
    cred_result # Unset =>
        /\ cred_result.kind = "ret"
        /\ IF HasAwsFields(temp_credentials)
           THEN /\ IsTripleOf(cred_result.val[1],
                              temp_credentials.val.attrs["aws_temp_credentials"])
                /\ cred_result.val[2] = None
           ELSE /\ cred_result.val[1] = None
                /\ NonEmptyError(cred_result.val[2])
        /\ (cred_result.val[1] = None) # (cred_result.val[2] = None)

\* The attribute is there and is None: the call returns an error.
C2_Witness ==
    /\ cred_result # Unset
    /\ HasAwsAttribute(temp_credentials)
    /\ temp_credentials.val.attrs["aws_temp_credentials"] = None
    /\ cred_result.val[1] = None
    /\ NonEmptyError(cred_result.val[2])

\* ---- C3 ----

AttributeOrder == <<"contents", "content", "body", "read">>

\* An attribute the chain can use: it is there, and contents is not None.
Present(response, a) ==
    HasAttr(response, a) /\ (a = "contents" => response.attrs[a] # None)

\* The first present attribute in the priority order, or "none"
FirstPresent(response) ==
    LET present == { i \in 1..Len(AttributeOrder) : Present(response, AttributeOrder[i]) }
    IN  IF present = {} THEN "none"
        ELSE AttributeOrder[CHOOSE i \in present : \A j \in present : i <= j]

\* What reading attribute a yields
Obtained(response, a) ==
    CASE a = "contents" ->
           IF HasAttr(response.attrs[a], "read") THEN response.attrs[a].attrs["read"]
           ELSE Exc("AttributeError", "read")
      [] a = "read" -> response.attrs[a]
      [] a = "none" ->
           IF HasAttr(response, "__bytes__") THEN response.attrs["__bytes__"]
           ELSE Exc("TypeError", "cannot convert to bytes")
      [] OTHER -> Ret(response.attrs[a])

\* C3: for every shape of download response, download_file_from_volume
\* selects the first present attribute in the order contents, content, body,
\* read(), and on success the local file holds exactly the bytes obtained
\* from it; when no attribute is present and the response cannot be
\* converted to bytes it returns False.
C3_FirstPresentWrittenVerbatim ==
    (frame # Unset /\ frame.env.out.kind = "ret") =>
        LET response == frame.env.out.val
            got == Obtained(response, FirstPresent(response))
        IN  /\ frame.out = Return(Bool(TRUE)) =>
                  /\ got.kind = "ret"
                  /\ got.val.t = "bytes"
                  /\ localFile = File(got.val.v)
            /\ (FirstPresent(response) = "none" /\ ~ HasAttr(response, "__bytes__")) =>
                  frame.out = Return(Bool(FALSE))

\* A success where content is chosen over a body holding other bytes, with
\* contents there but None.
C3_Witness ==
    /\ frame # Unset
    /\ frame.env.out.kind = "ret"
    /\ frame.out = Return(Bool(TRUE))
    /\ HasAttr(frame.env.out.val, "contents")
    /\ FirstPresent(frame.env.out.val) = "content"
    /\ HasAttr(frame.env.out.val, "body")
    /\ frame.env.out.val.attrs["body"] = Bytes(<<255>>)
    /\ localFile = File(<<91, 93>>)

\* ---- C4 ----

\* The calls made through the download response raised nothing.
ReadSucceeded(response) == Obtained(response, FirstPresent(response)).kind = "ret"

\* C4: no failure of an external call propagates out of get_aws_credentials,
\* get_ec2_instances or download_file_from_volume: they return (None, error
\* string), (empty list, error string) and False, and return a None error or
\* True only when every external call succeeded.
C4_FailuresBecomeSentinels ==
    /\ cred_result # Unset =>
         /\ cred_result.kind = "ret"
         /\ temp_credentials.kind = "exc" =>
              (cred_result.val[1] = None /\ NonEmptyError(cred_result.val[2]))
         /\ cred_result.val[2] = None => temp_credentials.kind = "ret"
    /\ ec2_result # Unset =>
         /\ ec2_result.kind = "ret"
         /\ describe_outcome.out.kind = "exc" =>
              (ec2_result.val[1] = List(<<>>) /\ NonEmptyError(ec2_result.val[2]))
         /\ ec2_result.val[2] = None => describe_outcome.out.kind = "ret"
    /\ frame # Unset =>
         /\ frame.out.kind = "return"
         /\ frame.env.out.kind = "exc" => frame.out.val = Bool(FALSE)
         /\ (frame.env.out.kind = "ret" /\ ~ ReadSucceeded(frame.env.out.val)) =>
              frame.out.val = Bool(FALSE)
         /\ frame.out.val = Bool(TRUE) =>
              /\ frame.env.out.kind = "ret"
              /\ ReadSucceeded(frame.env.out.val)
              /\ frame.env.fs.kind = "ok"

\* The describe call raised and the listing returned its sentinel.
C4_Witness ==
    /\ ec2_result # Unset
    /\ describe_outcome.stage = "describe"
    /\ describe_outcome.out.kind = "exc"
    /\ ec2_result = Ret(<<List(<<>>), Str("Error getting EC2 instances: denied")>>)

\* ---- C5 ----

\* C5: in every run of the startup script's main the download has finished
\* before the child is spawned, and one child is spawned whether the download
\* succeeded or failed; the child is never started before or during the
\* download.
C5_DownloadThenOneChild ==
    /\ spawned <= 1
    /\ (child # "none") = (spawned = 1)
    /\ pc \in {"start", "downloading", "download_ret", "spawn"} => spawned = 0
    /\ spawned = 1 => download_success \in {Bool(TRUE), Bool(FALSE)}
    /\ pc \in {"wait", "interrupted", "wait2", "done"} => spawned = 1

\* main has returned after a failed download, and the child was spawned.
C5_Witness ==
    /\ pc = "done"
    /\ download_success = Bool(FALSE)
    /\ spawned = 1

\* ---- C6 ----

\* C6: in every run of the preview app the local file is opened for reading
\* only if the existence check of that run returned true; when it returned
\* false the app reports "Local file not found" and reads nothing.
C6_OpenOnlyAfterCheck ==
    /\ opened => exists1 = Bool(TRUE)
    /\ apc = "read" => exists1 = Bool(TRUE)
    /\ exists1 = Bool(FALSE) => (MsgNotFound \in shown /\ ~ opened)

\* A run that found no file has finished.
C6_Witness ==
    /\ apc = "ran"
    /\ exists1 = Bool(FALSE)
    /\ MsgNotFound \in shown

\* ---- C7 ----

\* C7: start_streamlit returns normally only after the child has exited:
\* without an interrupt it blocks on the child's exit; after an interrupt in
\* the wait it sends terminate exactly once and waits for the exit before
\* returning.
C7_ReturnsAfterChildExit ==
    /\ terminates <= 1
    /\ terminates = 1 => interrupted
    /\ pc = "done" =>
         /\ child = "exited"
         /\ terminates = IF interrupted THEN 1 ELSE 0

\* start_streamlit has returned after an interrupt.
C7_Witness ==
    /\ pc = "done"
    /\ interrupted
    /\ terminates = 1
    /\ child = "exited"

\* ---- C8 ----

CredentialsFailed ==
    cred_result # Unset /\ cred_result.kind = "ret" /\ cred_result.val[2] # None

\* C8: in every run of the credential app's main the listing call is made
\* only after the broker call of the same run returned a non-empty triple
\* with no error, and neither call is made unless the credential name is
\* non-empty and the button was pressed; a credential failure stops the
\* action with its error shown and no listing attempted.
C8_ListingOnlyWithCredentials ==
    /\ brokerCalls <= 1 /\ ec2Calls <= 1
    /\ (brokerCalls > 0 \/ mpc \in {"get_creds", "get_ec2"}) =>
         (service_credential_name # "" /\ fetch_instances)
    /\ (ec2Calls > 0 \/ mpc = "get_ec2") =>
         /\ brokerCalls = 1
         /\ cred_result.kind = "ret"
         /\ cred_result.val[2] = None
         /\ cred_result.val[1].t = "dict"
         /\ Truthy(cred_result.val[1])
    /\ CredentialsFailed =>
         /\ ec2Calls = 0
         /\ mpc = "done"
         /\ ui = Show("error", "Failed to get AWS credentials: " \o cred_result.val[2].v)

\* The broker call failed and the run has stopped.
C8_Witness ==
    /\ mpc = "done"
    /\ CredentialsFailed
    /\ temp_credentials.kind = "exc"
    /\ ec2Calls = 0

\* ---- C9 ----

\* C9 as stated: whenever the preview app shows "File was successfully
\* downloaded from Volume", the download of that launch returned success.
C9_SuccessStatusMeansDownloaded ==
    MsgDownloaded \in shown => download_success = Bool(TRUE)

\* ---- C10 ----

\* C10 as stated: whenever download_file_from_volume returns False, the
\* local file is exactly as it was before the call.
C10_FailureLeavesFile ==
    (pc = "download_ret" /\ frame.out = Return(Bool(FALSE))) => localFile = fileBefore


====
